---- MODULE Spec2Model ----
(***************************************************************************)
(* Team-membership invitations: the TEAM_MEMBERS_INVITE handler and        *)
(* updateActivityLog of packages/sdk/src/mcp/members/api.ts, and the       *)
(* InviteTeamMembersDialog component.                                      *)
(*                                                                         *)
(* Every handler is an async function: between two awaits its code runs    *)
(* without interruption, and at an await any other request may run.  One   *)
(* action of the model is one such segment, taken at the moment the        *)
(* awaited database call or network call completes.                        *)
(*                                                                         *)
(* Three specifications share the module:                                  *)
(*   Spec          concurrent TEAM_MEMBERS_INVITE requests                 *)
(*   SpecActivity  concurrent updateActivityLog calls                      *)
(*   SpecDialog    the invite dialog and its submissions                   *)
(***************************************************************************)
EXTENDS Integers, Sequences, FiniteSets, TLC

VARIABLES
  invitesTable,  \* the "invites" table: a sequence of rows, in insertion order
  req,           \* req[r]: the state of TEAM_MEMBERS_INVITE request r
  selfHost,      \* process.env.SELF_HOST_MODE === "true"
  activity,      \* activity[u]: the "activity" column of the member row of user u
  call,          \* call[k]: the state of updateActivityLog call k
  clock,         \* the wall clock read by new Date()
  open,          \* the dialog's useState(false)
  form,          \* the react-hook-form values: emails, roleId
  attempt        \* attempt[a]: the state of handleInvite invocation a

inviteVars == <<invitesTable, req, selfHost>>
activityVars == <<activity, call, clock>>
dialogVars == <<open, form, attempt>>
vars == <<invitesTable, req, selfHost, activity, call, clock, open, form, attempt>>

(***************************************************************************)
(* Bounds                                                                  *)
(***************************************************************************)
MaxRequests == 2
MaxInvitees == 2
MaxCalls == 3
MaxAttempts == 2
MaxEmails == 2

Requests == 1..MaxRequests
Calls == 1..MaxCalls
Attempts == 1..MaxAttempts

\* All sequences over S of length at most n.
SeqUpTo(S, n) == UNION {[1..k -> S] : k \in 0..n}

(***************************************************************************)
(* The data of the invite handler                                          *)
(***************************************************************************)
\* String.prototype.toLowerCase on the emails of the model.
ToLowerCase(s) == IF s = "A@x.com" THEN "a@x.com" ELSE s

AdminRole == [id |-> 1, name |-> "admin"]
DefaultRole == [id |-> 2, name |-> "collaborator"]

\* The invitees a request may name, without roles and with a role.  "A@x.com"
\* differs from "a@x.com" in letter case only; "m@x.com" is the email of a
\* member of team 1.
Invitee ==
  {[email |-> "a@x.com", roles |-> <<>>],
   [email |-> "A@x.com", roles |-> <<AdminRole>>],
   [email |-> "m@x.com", roles |-> <<>>]}

\* props.invitees: a list of invitees, or absent.
InviteesInputs ==
  {[present |-> TRUE, list |-> l] : l \in SeqUpTo(Invitee, MaxInvitees)}
    \cup {[present |-> FALSE, list |-> <<>>]}

\* props.teamId is a string.
TeamIdInputs == {"1", "abc"}

\* Number(teamId): a number, or NaN.
ToNumber(s) ==
  CASE s = "1" -> [isNaN |-> FALSE, n |-> 1]
    [] s = "2" -> [isNaN |-> FALSE, n |-> 2]
    [] OTHER -> [isNaN |-> TRUE, n |-> 0]

\* c.user of a request: "u1" is a member of team 1, "u2" is not and has no
\* email; "agent" is a principal that is not a user.
Principals == {"u1", "u2", "agent"}
UserEmail(u) == IF u = "u1" THEN "u1@x.com" ELSE ""

\* The teams table with the members of each team (not written by this code).
\* Team 1 is the only team.
TeamRow(n) ==
  IF n = 1
    THEN [id |-> 1, name |-> "team-one", members |-> {"u1", "m"},
          memberEmails |-> {"m@x.com", "u1@x.com"}]
    ELSE [id |-> n, name |-> "", members |-> {}, memberEmails |-> {}]

NoOut == [kind |-> "none", name |-> "", message |-> ""]
Message(m) == [kind |-> "message", name |-> "", message |-> m]
Error(n, m) == [kind |-> "error", name |-> n, message |-> m]

NoResult == [hasData |-> FALSE, data |-> <<>>, error |-> FALSE]

IdleRequest ==
  [pc |-> "idle", user |-> "", teamId |-> "",
   invitees |-> [present |-> FALSE, list |-> <<>>],
   processed |-> <<>>, results |-> <<>>, invites |-> <<>>,
   insertCalls |-> 0, inviteResult |-> NoResult, sent |-> <<>>, out |-> NoOut]

(***************************************************************************)
(* invites-utils.ts and assertions.ts are not part of the sources at hand: *)
(* their helpers are modelled from the specification.                      *)
(***************************************************************************)
\* getInviteIdByEmailAndTeam: the ids of the pending invites for the email
\* and the team.
GetInviteIdByEmailAndTeam(email, teamId, table) ==
  LET match(row) == /\ row.invited_email = ToLowerCase(email)
                    /\ row.team_id = ToNumber(teamId).n
      rows == SelectSeq(table, match)
  IN [i \in 1..Len(rows) |-> rows[i].id]

\* checkAlreadyExistUserIdInTeam: a user with that email belongs to the team.
CheckAlreadyExistUserIdInTeam(email, teamId) ==
  ToLowerCase(email) \in TeamRow(ToNumber(teamId).n).memberEmails

\* getTeamById
GetTeamById(teamId) == TeamRow(ToNumber(teamId).n)

\* userBelongsToTeam
UserBelongsToTeam(teamData, userId) == userId \in teamData.members

\* assertPrincipalIsUser passes for a user principal.
PrincipalIsUser(principal) == principal \in {"u1", "u2"}

\* What insertInvites may answer: the rows written and returned; an error; no
\* error and null data; no error and an empty list of rows.
InsertOutcomes == {"rows", "error", "null", "empty"}

(***************************************************************************)
(* inviteTeamMembers.handler, expression by expression                     *)
(***************************************************************************)
\* line 178: !invitees || Number.isNaN(teamIdAsNum)
InvalidInputs(invitees, teamIdAsNum) == ~invitees.present \/ teamIdAsNum.isNaN

ProcessInvitees_NoDefault(invitees) == invitees

\* lines 181-183: the default role of an invitee without roles
ProcessInvitees(invitees) ==
  [i \in 1..Len(invitees) |->
     IF Len(invitees[i].roles) = 0
       THEN [invitees[i] EXCEPT !.roles = <<DefaultRole>>]
       ELSE invitees[i]]

Ignore_InvitesOnly(invites, exists) == Len(invites) > 0

\* line 191: (invites && invites.length > 0) || exists
Ignore(invites, exists) == Len(invites) > 0 \/ exists

\* line 194: results.filter(r => !r.ignore).map(r => r.invitee)
InviteesToInvite(results) ==
  LET kept == SelectSeq(results, LAMBDA x : ~x.ignore)
  IN [i \in 1..Len(kept) |-> kept[i].invitee]

NothingToInvite_Never(inviteesToInvite) == FALSE

\* line 195: !inviteesToInvite.length
NothingToInvite(inviteesToInvite) == Len(inviteesToInvite) = 0

MayInvite_Always(teamData, userId) == TRUE

\* line 199: userBelongsToTeam(teamData, user.id)
MayInvite(teamData, userId) == UserBelongsToTeam(teamData, userId)

\* lines 201-207: the invite records to insert
BuildInvites(inviteesToInvite, teamIdAsNum, teamData, userId) ==
  [i \in 1..Len(inviteesToInvite) |->
     [invited_email |-> ToLowerCase(inviteesToInvite[i].email),
      team_id |-> teamIdAsNum.n,
      team_name |-> teamData.name,
      inviter_id |-> userId,
      invited_roles |-> inviteesToInvite[i].roles]]

\* line 208: insertInvites (of invites-utils.ts) writes the records as rows
\* with fresh ids and returns them, or writes nothing.
InsertedRows(invites, table) ==
  [i \in 1..Len(invites) |->
     [id |-> Len(table) + i,
      invited_email |-> invites[i].invited_email,
      team_id |-> invites[i].team_id,
      team_name |-> invites[i].team_name,
      inviter_id |-> invites[i].inviter_id,
      invited_roles |-> invites[i].invited_roles]]

InsertResult(outcome, rows) ==
  CASE outcome = "rows" -> [hasData |-> TRUE, data |-> rows, error |-> FALSE]
    [] outcome = "empty" -> [hasData |-> TRUE, data |-> <<>>, error |-> FALSE]
    [] outcome = "null" -> [hasData |-> FALSE, data |-> <<>>, error |-> FALSE]
    [] OTHER -> [hasData |-> FALSE, data |-> <<>>, error |-> TRUE]

\* line 209: !inviteResult.data || inviteResult.error  (an empty array is truthy)
InsertFailed(inviteResult) == ~inviteResult.hasData \/ inviteResult.error

SendsEmail_Always(selfHostMode) == TRUE

\* line 212: process.env.SELF_HOST_MODE !== "true"
SendsEmail(selfHostMode) == ~selfHostMode

\* lines 213-216: one sendInviteEmail call for each row the insert returned
SentEmails(data, userId) ==
  [i \in 1..Len(data) |->
     [id |-> data[i].id,
      invited_email |-> data[i].invited_email,
      team_id |-> data[i].team_id,
      inviter |-> IF UserEmail(userId) = "" THEN "Unknown" ELSE UserEmail(userId),
      roles |-> [k \in 1..Len(data[i].invited_roles) |-> data[i].invited_roles[k].name]]]

AlreadyInvited == Message("All users already invited or members")
InviteCreated == Message("Invite created. Users can log in at https://deco.chat")
InvalidInputsError == Error("UserInputError", "Invalid inputs")
NoAccessToTeam == Error("ForbiddenError", "No access to team")
FailedToCreate == Error("InternalServerError", "Failed to create invites")
\* thrown by the helpers outside these sources
NotAUser == Error("AssertionError", "principal is not a user")
AccessDenied == Error("AccessError", "team resource access denied")
EmailFailed == Error("EmailError", "sendInviteEmail failed")

(***************************************************************************)
(* inviteTeamMembers.handler, await by await                               *)
(***************************************************************************)
\* lines 171-177: a request arrives; assertPrincipalIsUser throws before the
\* props are read, or Number(teamId) is taken and assertTeamResourceAccess is
\* called.
Start(r) ==
  /\ req[r].pc = "idle"
  /\ \E user \in Principals, teamId \in TeamIdInputs, invitees \in InviteesInputs :
       req' = [req EXCEPT ![r] =
                 IF ~PrincipalIsUser(user)
                   THEN [@ EXCEPT !.user = user, !.pc = "failed", !.out = NotAUser]
                   ELSE [@ EXCEPT !.user = user, !.teamId = teamId,
                                  !.invitees = invitees, !.pc = "access"]]
  /\ UNCHANGED <<invitesTable, selfHost, activityVars, dialogVars>>

\* lines 177-192: assertTeamResourceAccess returns or throws; the inputs are
\* validated; the default role is assigned; the duplicate checks are issued.
AccessReturn(r) ==
  /\ req[r].pc = "access"
  /\ \E granted \in BOOLEAN :
       req' = [req EXCEPT ![r] =
         IF ~granted THEN [@ EXCEPT !.pc = "failed", !.out = AccessDenied]
         ELSE IF InvalidInputs(@.invitees, ToNumber(@.teamId))
           THEN [@ EXCEPT !.pc = "failed", !.out = InvalidInputsError]
         ELSE LET processedInvitees == ProcessInvitees(@.invitees.list)
              IN [@ EXCEPT !.pc = "check",
                           !.processed = processedInvitees,
                           !.results = [i \in 1..Len(processedInvitees) |->
                                          [invitee |-> processedInvitees[i],
                                           checked |-> FALSE, invites |-> <<>>,
                                           exists |-> FALSE, ignore |-> FALSE]]]]
  /\ UNCHANGED <<invitesTable, selfHost, activityVars, dialogVars>>

\* lines 187-191: the two queries of invitee i are answered.  The members of a
\* team do not change here, so the moment of the invites query is the moment
\* of the check.
DuplicateCheck(r, i) ==
  /\ req[r].pc = "check"
  /\ i \in 1..Len(req[r].results)
  /\ ~req[r].results[i].checked
  /\ LET inv == req[r].results[i].invitee
         invites == GetInviteIdByEmailAndTeam(inv.email, req[r].teamId, invitesTable)
         exists == CheckAlreadyExistUserIdInTeam(inv.email, req[r].teamId)
     IN req' = [req EXCEPT ![r].results[i] =
                  [invitee |-> inv, checked |-> TRUE, invites |-> invites,
                   exists |-> exists, ignore |-> Ignore(invites, exists)]]
  /\ UNCHANGED <<invitesTable, selfHost, activityVars, dialogVars>>

\* lines 192-198: every check is answered; the dropped invitees are filtered
\* out; the early return, or getTeamById is called.
AfterChecks(r) ==
  /\ req[r].pc = "check"
  /\ \A i \in 1..Len(req[r].results) : req[r].results[i].checked
  /\ req' = [req EXCEPT ![r] =
       IF NothingToInvite(InviteesToInvite(@.results))
         THEN [@ EXCEPT !.pc = "done", !.out = AlreadyInvited]
         ELSE [@ EXCEPT !.pc = "team"]]
  /\ UNCHANGED <<invitesTable, selfHost, activityVars, dialogVars>>

\* lines 198-208: getTeamById returns; the membership check; the invite
\* records are built and insertInvites is called.
TeamReturn(r) ==
  /\ req[r].pc = "team"
  /\ LET teamData == GetTeamById(req[r].teamId)
     IN req' = [req EXCEPT ![r] =
          IF ~MayInvite(teamData, @.user)
            THEN [@ EXCEPT !.pc = "failed", !.out = NoAccessToTeam]
            ELSE [@ EXCEPT !.pc = "insert",
                           !.insertCalls = @ + 1,
                           !.invites = BuildInvites(InviteesToInvite(req[r].results),
                                          ToNumber(req[r].teamId), teamData, req[r].user)]]
  /\ UNCHANGED <<invitesTable, selfHost, activityVars, dialogVars>>

\* lines 208-220: insertInvites answers; the internal error, or the emails
\* are sent (every sendInviteEmail call is made before the first await
\* yields), or self-host mode returns without emails.
InsertReturn(r) ==
  /\ req[r].pc = "insert"
  /\ \E outcome \in InsertOutcomes :
       LET rows == InsertedRows(req[r].invites, invitesTable)
           inviteResult == InsertResult(outcome, rows)
       IN /\ invitesTable' = IF outcome = "rows" THEN invitesTable \o rows ELSE invitesTable
          /\ req' = [req EXCEPT ![r] =
               IF InsertFailed(inviteResult)
                 THEN [@ EXCEPT !.pc = "failed", !.inviteResult = inviteResult,
                                !.out = FailedToCreate]
               ELSE IF SendsEmail(selfHost)
                 THEN [@ EXCEPT !.pc = "send", !.inviteResult = inviteResult,
                                !.sent = SentEmails(inviteResult.data, req[r].user)]
                 ELSE [@ EXCEPT !.pc = "done", !.inviteResult = inviteResult,
                                !.out = InviteCreated]]
  /\ UNCHANGED <<selfHost, activityVars, dialogVars>>

\* lines 213-220: Promise.all of the sends settles: the success message, or
\* the error of a send that failed.
SendReturn(r) ==
  /\ req[r].pc = "send"
  /\ \E delivered \in BOOLEAN :
       /\ (~delivered => Len(req[r].sent) > 0)
       /\ req' = [req EXCEPT ![r] =
            IF delivered THEN [@ EXCEPT !.pc = "done", !.out = InviteCreated]
                         ELSE [@ EXCEPT !.pc = "failed", !.out = EmailFailed]]
  /\ UNCHANGED <<invitesTable, selfHost, activityVars, dialogVars>>

(***************************************************************************)
(* updateActivityLog                                                       *)
(***************************************************************************)
\* The rows of the "members" table, by team_id and user_id.
MemberRows == {<<1, "u1">>, <<1, "u2">>}

TeamIdArgs == {1, 2}
UserIdArgs == {"u1", "u2"}
LogActions == {"add_member", "remove_member"}

IdleCall ==
  [pc |-> "idle", teamId |-> 0, userId |-> "", action |-> "",
   currentTimestamp |-> 0, activityLog |-> <<>>]

\* lines 40-47: data?.activity || []
SelectActivity(teamId, userId, stored) ==
  IF <<teamId, userId>> \in MemberRows THEN stored[<<teamId, userId>>] ELSE <<>>

\* lines 49-61: the update writes the log that was read, with the new entry
\* appended, to the row of the member (to no row when there is none).
UpdateActivity(teamId, userId, activityLog, action, currentTimestamp, stored) ==
  IF <<teamId, userId>> \in MemberRows
    THEN [stored EXCEPT ![<<teamId, userId>>] =
            activityLog \o <<[action |-> action, timestamp |-> currentTimestamp]>>]
    ELSE stored

\* lines 27-45: a call starts, reads the clock and issues the select.
LogStart(k) ==
  /\ call[k].pc = "idle"
  /\ \E teamId \in TeamIdArgs, userId \in UserIdArgs, action \in LogActions :
       call' = [call EXCEPT ![k] =
                  [pc |-> "select", teamId |-> teamId, userId |-> userId,
                   action |-> action, currentTimestamp |-> clock, activityLog |-> <<>>]]
  /\ clock' = clock + 1
  /\ UNCHANGED <<activity, inviteVars, dialogVars>>

\* lines 40-49: the select is answered; the update is issued.
LogSelect(k) ==
  /\ call[k].pc = "select"
  /\ call' = [call EXCEPT ![k].pc = "update",
                          ![k].activityLog =
                             SelectActivity(call[k].teamId, call[k].userId, activity)]
  /\ UNCHANGED <<activity, clock, inviteVars, dialogVars>>

\* lines 49-61: the update is executed and answered.
LogUpdate(k) ==
  /\ call[k].pc = "update"
  /\ activity' = UpdateActivity(call[k].teamId, call[k].userId, call[k].activityLog,
                                call[k].action, call[k].currentTimestamp, activity)
  /\ call' = [call EXCEPT ![k].pc = "done"]
  /\ UNCHANGED <<clock, inviteVars, dialogVars>>

(***************************************************************************)
(* InviteTeamMembersDialog                                                 *)
(***************************************************************************)
\* What the user may type into the emails field.
EmailInputs == {"a@x.com", "not-an-email"}

\* z.string().email() on the strings of the model.
IsEmail(e) == e = "a@x.com"

\* What the role select may hold.
RoleSelections == {<<>>, <<"collab">>, <<"collab", "admin">>}

\* line 29: defaultValues
DefaultValues == [emails |-> <<>>, roleId |-> <<>>]

IdleAttempt ==
  [pc |-> "idle", posts |-> 0, invited |-> 0, response |-> "", toast |-> ""]

\* What the POST may come to: a 2xx response, another response, a thrown error.
Responses == {"2xx", "non2xx", "throw"}

\* lines 32-35: validEmails
ValidEmails(emails) == SelectSeq(emails, IsEmail)

\* lines 19-22: inviteSchema, as react-hook-form's resolver
SchemaAccepts(values) ==
  /\ \A i \in 1..Len(values.emails) : IsEmail(values.emails[i])
  /\ Len(values.roleId) >= 1

\* line 50: res.ok; a thrown fetch lands in the catch as well
Succeeded(response) == response = "2xx"

\* line 52: setOpen(false) on success only
OpenAfter(response, wasOpen) == IF Succeeded(response) THEN FALSE ELSE wasOpen

FormAfter_AlwaysReset(response, values) == DefaultValues

\* line 53: form.reset() on success only
FormAfter(response, values) == IF Succeeded(response) THEN DefaultValues ELSE values

\* lines 60-64: the trigger's onClick
OpenDialog ==
  /\ ~open
  /\ open' = TRUE
  /\ UNCHANGED <<form, attempt, inviteVars, activityVars>>

\* lines 69, 112-114: onOpenChange(false): Cancel, Escape, a click outside
CloseDialog ==
  /\ open
  /\ open' = FALSE
  /\ UNCHANGED <<form, attempt, inviteVars, activityVars>>

\* lines 83-86: the emails field changes
ChangeEmails ==
  /\ open
  /\ \E emails \in SeqUpTo(EmailInputs, MaxEmails) :
       /\ emails # form.emails
       /\ form' = [form EXCEPT !.emails = emails]
  /\ UNCHANGED <<open, attempt, inviteVars, activityVars>>

\* lines 99-103: the role select changes
ChangeRoles ==
  /\ open
  /\ \E roleId \in RoleSelections :
       /\ roleId # form.roleId
       /\ form' = [form EXCEPT !.roleId = roleId]
  /\ UNCHANGED <<open, attempt, inviteVars, activityVars>>

\* lines 37-48, 76, 115: the submit button is enabled while there is a valid
\* email; handleSubmit calls handleInvite when the schema accepts the
\* values; handleInvite issues the POST for the valid emails, whose number the
\* success toast will name.
Submit(a) ==
  /\ open
  /\ attempt[a].pc = "idle"
  /\ \A b \in Attempts : b < a => attempt[b].pc # "idle"
  /\ Len(ValidEmails(form.emails)) # 0
  /\ SchemaAccepts(form)
  /\ attempt' = [attempt EXCEPT ![a] =
                   [@ EXCEPT !.pc = "awaiting",
                             !.posts = @ + 1,
                             !.invited = Len(ValidEmails(form.emails))]]
  /\ UNCHANGED <<open, form, inviteVars, activityVars>>

\* lines 49-57: the POST settles: the success toast, the dialog closed and the
\* form reset; or the catch, with the failure toast.
Respond(a) ==
  /\ attempt[a].pc = "awaiting"
  /\ \E response \in Responses :
       /\ attempt' = [attempt EXCEPT ![a] =
            [@ EXCEPT !.pc = IF Succeeded(response) THEN "done" ELSE "failed",
                      !.response = response,
                      !.toast = IF Succeeded(response) THEN "success" ELSE "error"]]
       /\ open' = OpenAfter(response, open)
       /\ form' = FormAfter(response, form)
  /\ UNCHANGED <<inviteVars, activityVars>>


InitInvite ==
  /\ invitesTable = <<>>
  /\ req = [r \in Requests |-> IdleRequest]

InitActivity ==
  /\ activity = [m \in MemberRows |-> <<>>]
  /\ call = [k \in Calls |-> IdleCall]
  /\ clock = 0

InitDialog ==
  /\ open = FALSE
  /\ form = DefaultValues
  /\ attempt = [a \in Attempts |-> IdleAttempt]

\* The self-host mode flag is set or not when the server starts.
Init == InitInvite /\ InitActivity /\ InitDialog /\ selfHost \in BOOLEAN

Next ==
  \E r \in Requests :
    \/ Start(r)
    \/ AccessReturn(r)
    \/ \E i \in 1..MaxInvitees : DuplicateCheck(r, i)
    \/ AfterChecks(r)
    \/ TeamReturn(r)
    \/ InsertReturn(r)
    \/ SendReturn(r)

Spec == Init /\ [][Next]_vars

NextActivity ==
  \E k \in Calls :
    \/ LogStart(k)
    \/ LogSelect(k)
    \/ LogUpdate(k)

InitOther == InitInvite /\ InitActivity /\ InitDialog /\ selfHost = FALSE

SpecActivity == InitOther /\ [][NextActivity]_vars

NextDialog ==
  \/ OpenDialog
  \/ CloseDialog
  \/ ChangeEmails
  \/ ChangeRoles
  \/ \E a \in Attempts : Submit(a) \/ Respond(a)

SpecDialog == InitOther /\ [][NextDialog]_vars

(***************************************************************************)
(* Properties of TEAM_MEMBERS_INVITE                                       *)
(***************************************************************************)
Finished(r) == req[r].pc \in {"done", "failed"}

\* Request r is past its duplicate checks: every check was issued and answered.
PastChecks(r) ==
  /\ req[r].pc \in {"team", "insert", "send", "done", "failed"}
  /\ req[r].out \notin {NotAUser, AccessDenied, InvalidInputsError}

\* insertInvites was called by request r and has answered.
InsertAnswered(r) == req[r].insertCalls = 1 /\ req[r].pc # "insert"

\* The duplicate check of an invitee found a pending invite or a member.
Dropped(result) == result.checked /\ (Len(result.invites) > 0 \/ result.exists)

\* The positions, in order, of the invitees the duplicate check did not drop.
RECURSIVE Survivors(_, _)
Survivors(results, i) ==
  IF i > Len(results) THEN <<>>
  ELSE (IF Dropped(results[i]) THEN <<>> ELSE <<i>>) \o Survivors(results, i + 1)

\* C1: the invites table holds at most one row for any (invited_email,
\* team_id) pair, in every reachable state.
C1_AtMostOneInvitePerEmailAndTeam ==
  \A i, j \in 1..Len(invitesTable) :
    (/\ invitesTable[i].invited_email = invitesTable[j].invited_email
     /\ invitesTable[i].team_id = invitesTable[j].team_id) => i = j

\* C2: an invitee whose duplicate check found a pending invite or a member is
\* dropped: the records a request builds, the rows it inserts and the emails
\* it sends are those of the other invitees of the request, one each and in
\* their order, and none is for a dropped invitee.
C2_DroppedInviteesAreNotInvited ==
  \A r \in Requests :
    LET q == req[r]
        surv == Survivors(q.results, 1)
        of(x, k) == /\ k <= Len(surv)
                    /\ x.invited_email = ToLowerCase(q.invitees.list[surv[k]].email)
    IN PastChecks(r) =>
         /\ q.insertCalls = 1 =>
              /\ Len(q.invites) = Len(surv)
              /\ \A k \in 1..Len(q.invites) : of(q.invites[k], k)
         /\ Len(q.inviteResult.data) \in {0, Len(surv)}
         /\ \A k \in 1..Len(q.inviteResult.data) : of(q.inviteResult.data[k], k)
         /\ \A k \in 1..Len(q.sent) : of(q.sent[k], k)

\* C2's case: a request of two invitees, one dropped for a pending invite, has
\* inserted the other.
C2_Witness ==
  \E r \in Requests :
    /\ req[r].pc = "done"
    /\ Len(req[r].results) = 2
    /\ \E i \in 1..2 : Len(req[r].results[i].invites) > 0
    /\ Len(req[r].inviteResult.data) = 1
    /\ Len(req[r].sent) = 1

\* C3: a request all of whose invitees were dropped returns "All users already
\* invited or members" and has called neither insertInvites nor
\* sendInviteEmail: it has written nothing.
C3_AllDroppedReturnsWithoutWrites ==
  \A r \in Requests :
    (PastChecks(r) /\ \A i \in 1..Len(req[r].results) : Dropped(req[r].results[i])) =>
      /\ req[r].pc = "done"
      /\ req[r].out = AlreadyInvited
      /\ req[r].insertCalls = 0
      /\ req[r].invites = <<>>
      /\ req[r].inviteResult = NoResult
      /\ req[r].sent = <<>>

\* C3's case: a request finished with two invitees, both dropped, one of them
\* for a pending invite that is still the only row of the table.
C3_Witness ==
  \E r \in Requests :
    /\ req[r].pc = "done"
    /\ Len(req[r].results) = 2
    /\ \A i \in 1..2 : Dropped(req[r].results[i])
    /\ \E i \in 1..2 : Len(req[r].results[i].invites) > 0
    /\ Len(invitesTable) = 1

\* The requesting user of r is a user who is not a member of the team of r.
RequesterOutsideTeam(r) ==
  /\ req[r].pc # "idle"
  /\ PrincipalIsUser(req[r].user)
  /\ ~UserBelongsToTeam(GetTeamById(req[r].teamId), req[r].user)

\* C4 as stated: a request of a user outside the team, whatever its invitees
\* list, fails with the forbidden error, inserts nothing and sends nothing.
\* (Stated for requests with valid inputs that passed the resource access
\* check.)
C4_NonMemberAlwaysForbidden ==
  \A r \in Requests :
    (RequesterOutsideTeam(r) /\ Finished(r) /\ PastChecks(r)) =>
      /\ req[r].out = NoAccessToTeam
      /\ req[r].insertCalls = 0
      /\ req[r].sent = <<>>

\* C4 amended: a request of a user outside the team never calls insertInvites
\* or sendInviteEmail; it fails with the forbidden error when at least one
\* invitee survives the duplicate check, and returns "All users already
\* invited or members" when none does.
C4_NonMemberNeverInvites ==
  \A r \in Requests :
    RequesterOutsideTeam(r) =>
      /\ req[r].pc \notin {"insert", "send"}
      /\ req[r].insertCalls = 0
      /\ req[r].inviteResult = NoResult
      /\ req[r].sent = <<>>
      /\ (PastChecks(r) /\ req[r].pc # "team") =>
           IF Len(Survivors(req[r].results, 1)) > 0
             THEN req[r].pc = "failed" /\ req[r].out = NoAccessToTeam
             ELSE req[r].pc = "done" /\ req[r].out = AlreadyInvited

\* C4's case: a user outside the team named an invitee that survived the
\* duplicate check, and the request failed with the forbidden error.
C4_Witness ==
  \E r \in Requests :
    /\ RequesterOutsideTeam(r)
    /\ req[r].teamId = "1"
    /\ Len(Survivors(req[r].results, 1)) > 0
    /\ req[r].out = NoAccessToTeam

\* C5: in self-host mode no request calls sendInviteEmail; outside it, once
\* the insert has succeeded, sendInviteEmail has been called exactly once for
\* each row the insert returned; before that, or when the insert failed, it
\* has not been called.
C5_OneEmailPerCreatedInvite ==
  \A r \in Requests :
    LET q == req[r]
        succeeded == InsertAnswered(r) /\ q.inviteResult.hasData /\ ~q.inviteResult.error
    IN /\ selfHost => q.sent = <<>>
       /\ ~succeeded => q.sent = <<>>
       /\ (~selfHost /\ succeeded) =>
            /\ Len(q.sent) = Len(q.inviteResult.data)
            /\ \A k \in 1..Len(q.sent) :
                 /\ q.sent[k].id = q.inviteResult.data[k].id
                 /\ q.sent[k].invited_email = q.inviteResult.data[k].invited_email
            /\ \A k, l \in 1..Len(q.sent) : q.sent[k].id = q.sent[l].id => k = l

\* C5's case: outside self-host mode a request has inserted two invites and
\* sent two emails.
C5_Witness ==
  \E r \in Requests :
    /\ ~selfHost
    /\ req[r].pc = "done"
    /\ Len(req[r].inviteResult.data) = 2
    /\ Len(req[r].sent) = 2

\* C6: the record built for a surviving invitee submitted with an empty roles
\* list carries exactly the role {id: 2, name: "collaborator"}; the record of
\* one submitted with roles carries those roles.  The inserted rows carry the
\* roles of their records.
C6_DefaultRoleForEmptyRoles ==
  \A r \in Requests :
    LET q == req[r]
        surv == Survivors(q.results, 1)
        rolesOf(x, k) ==
          /\ k <= Len(surv)
          /\ LET submitted == q.invitees.list[surv[k]].roles
             IN x.invited_roles =
                  IF submitted = <<>> THEN <<[id |-> 2, name |-> "collaborator"]>>
                                      ELSE submitted
    IN /\ \A k \in 1..Len(q.invites) : rolesOf(q.invites[k], k)
       /\ \A k \in 1..Len(q.inviteResult.data) : rolesOf(q.inviteResult.data[k], k)

\* C6's case: a request has inserted one invite submitted without roles and
\* one submitted with a role.
C6_Witness ==
  \E r \in Requests :
    /\ Len(req[r].inviteResult.data) = 2
    /\ \E i, j \in 1..2 : /\ req[r].invitees.list[i].roles = <<>>
                          /\ req[r].invitees.list[j].roles # <<>>

\* C7: once insertInvites has answered with an error, with null data or with
\* an empty list of rows, for a non-empty list of records, the handler has
\* failed with the internal error and has sent no email.
C7_InsertFailureIsInternalError ==
  \A r \in Requests :
    LET q == req[r]
    IN (/\ InsertAnswered(r)
        /\ Len(q.invites) > 0
        /\ (q.inviteResult.error \/ ~q.inviteResult.hasData \/ q.inviteResult.data = <<>>)) =>
         /\ q.pc = "failed"
         /\ q.out = FailedToCreate
         /\ q.sent = <<>>

\* C8: a finished request of a user whose teamId is not a number or whose
\* invitees is absent has failed with the user-input error "Invalid inputs"
\* and has run no duplicate check, no insert and no email send.
C8_InvalidInputsIsUserInputError ==
  \A r \in Requests :
    (/\ Finished(r)
     /\ PrincipalIsUser(req[r].user)
     /\ (~req[r].invitees.present \/ ToNumber(req[r].teamId).isNaN)) =>
      /\ req[r].out = InvalidInputsError
      /\ req[r].results = <<>>
      /\ req[r].insertCalls = 0
      /\ req[r].sent = <<>>

(***************************************************************************)
(* Properties of updateActivityLog                                         *)
(***************************************************************************)
\* C9: the activity log is append-only under concurrent calls: the entry of
\* every call that has completed on a member row is in the stored log of the
\* row, and the log holds one entry for each completed call.
C9_ActivityLogKeepsEveryEntry ==
  \A m \in MemberRows :
    LET done == {k \in Calls : call[k].pc = "done" /\ <<call[k].teamId, call[k].userId>> = m}
    IN /\ \A k \in done :
            \E i \in 1..Len(activity[m]) :
              activity[m][i] = [action |-> call[k].action,
                                timestamp |-> call[k].currentTimestamp]
       /\ Len(activity[m]) = Cardinality(done)

(***************************************************************************)
(* Properties of InviteTeamMembersDialog                                   *)
(***************************************************************************)
\* C10: a submission issues exactly one POST and never another; when its
\* response is 2xx the dialog is closed and the form is reset to empty; when
\* the response is not 2xx or the request throws, the step leaves the dialog
\* open or closed as it was and the emails and roles as they were.
C10_SubmissionOutcome ==
  [][\A a \in Attempts :
       /\ attempt'[a].posts = IF attempt'[a].pc = "idle" THEN 0 ELSE 1
       /\ attempt[a].pc # "idle" => attempt'[a].posts = attempt[a].posts
       /\ (attempt[a].pc = "awaiting" /\ attempt'[a].pc # "awaiting") =>
            IF attempt'[a].response = "2xx"
              THEN /\ open' = FALSE
                   /\ form' = [emails |-> <<>>, roleId |-> <<>>]
              ELSE /\ attempt'[a].response \in {"non2xx", "throw"}
                   /\ open' = open
                   /\ form' = form]_vars

\* C10's case: a submission has failed and the dialog is open with the emails
\* and the role that were submitted.
C10_Witness ==
  \E a \in Attempts :
    /\ attempt[a].pc = "failed"
    /\ open
    /\ Len(form.emails) = attempt[a].invited
    /\ Len(form.roleId) > 0

====
